---- MODULE Spec2Model ----
(***************************************************************************)
(* A model of chess_pygame.py: the chess rule engine (board, attack map,   *)
(* pseudo-legal and legal move generation, move execution, the capture-    *)
(* biased random opponent) and the game loop of main().                    *)
(***************************************************************************)
EXTENDS Integers, Sequences, FiniteSets, TLC

\* ------------------------------------------------------------------ config
ROWS == 8
COLS == 8

\* Python's None in a board square, and as an absent position or move.
None == [type |-> "None", color |-> "None"]
NoPos == <<-1, -1>>
NoMove == <<NoPos, NoPos>>

Squares == (0..(ROWS - 1)) \X (0..(COLS - 1))

in_bounds(r, c) == 0 <= r /\ r < ROWS /\ 0 <= c /\ c < COLS

\* The local helper put() of initial_board builds the piece dict.
put(t, color) == [type |-> t, color |-> color]

enemy_of(color) == IF color = "w" THEN "b" ELSE "w"

empty_board == [r \in 0..(ROWS - 1) |-> [c \in 0..(COLS - 1) |-> None]]

back_rank == <<"R", "N", "B", "Q", "K", "B", "N", "R">>

initial_board ==
  [r \in 0..(ROWS - 1) |-> [c \in 0..(COLS - 1) |->
     CASE r = 6 -> put("P", "w")
       [] r = 1 -> put("P", "b")
       [] r = 7 -> put(back_rank[c + 1], "w")
       [] r = 0 -> put(back_rank[c + 1], "b")
       [] OTHER -> None]]

\* --------------------------------------------------------------- attack map
\* The first square in row-major order holding a king of the color; NoPos
\* for the None returned after the loops.
find_king(board, color) ==
  LET kings == {q \in Squares : board[q[1]][q[2]] = put("K", color)}
  IN  IF kings = {} THEN NoPos
      ELSE CHOOSE k \in kings :
             \A o \in kings : k[1] * COLS + k[2] <= o[1] * COLS + o[2]

rook_dirs == << <<-1, 0>>, <<1, 0>>, <<0, -1>>, <<0, 1>> >>
bishop_dirs == << <<-1, -1>>, <<-1, 1>>, <<1, -1>>, <<1, 1>> >>
knight_offsets == << <<-2, -1>>, <<-2, 1>>, <<-1, -2>>, <<-1, 2>>,
                     <<1, -2>>, <<1, 2>>, <<2, -1>>, <<2, 1>> >>
king_offsets == << <<-1, -1>>, <<-1, 0>>, <<-1, 1>>, <<0, -1>>,
                   <<0, 1>>, <<1, -1>>, <<1, 0>>, <<1, 1>> >>

Range(s) == {s[i] : i \in 1..Len(s)}

rook_dir_set == Range(rook_dirs)
bishop_dir_set == Range(bishop_dirs)
queen_dir_set == Range(rook_dirs \o bishop_dirs)
knight_offset_set == Range(knight_offsets)
king_offset_set == Range(king_offsets)
pawn_offset_set(color) ==
  IF color = "w" THEN {<<-1, -1>>, <<-1, 1>>} ELSE {<<1, -1>>, <<1, 1>>}

\* The while loop of a sliding piece in squares_attacked_by: every square of
\* the ray up to and including the first occupied one.
RECURSIVE attack_ray(_, _, _, _, _)
attack_ray(board, rr, cc, dr, dc) ==
  IF ~in_bounds(rr, cc) THEN {}
  ELSE IF board[rr][cc] # None THEN {<<rr, cc>>}
  ELSE {<<rr, cc>>} \cup attack_ray(board, rr + dr, cc + dc, dr, dc)

\* The for loop over the directions of a sliding piece.
attack_rays(board, r, c, dirs) ==
  UNION {attack_ray(board, r + d[1], c + d[2], d[1], d[2]) : d \in dirs}

\* Pawn, knight and king: each offset square that is in bounds.
offset_attacks(r, c, offs) ==
  {q \in {<<r + d[1], c + d[2]>> : d \in offs} : in_bounds(q[1], q[2])}

\* A variant of piece_attacks: the queen attacks along the rook directions only.
piece_attacks_queen_as_rook(board, color, r, c) ==
  LET t == board[r][c].type
  IN  CASE t = "P" -> offset_attacks(r, c, pawn_offset_set(color))
        [] t = "N" -> offset_attacks(r, c, knight_offset_set)
        [] t = "K" -> offset_attacks(r, c, king_offset_set)
        [] t = "R" -> attack_rays(board, r, c, rook_dir_set)
        [] t = "B" -> attack_rays(board, r, c, bishop_dir_set)
        [] t = "Q" -> attack_rays(board, r, c, rook_dir_set)
        [] OTHER -> {}

\* The squares the piece on (r, c) adds to the attacked set.
piece_attacks(board, color, r, c) ==
  LET t == board[r][c].type
  IN  CASE t = "P" -> offset_attacks(r, c, pawn_offset_set(color))
        [] t = "N" -> offset_attacks(r, c, knight_offset_set)
        [] t = "K" -> offset_attacks(r, c, king_offset_set)
        [] t = "R" -> attack_rays(board, r, c, rook_dir_set)
        [] t = "B" -> attack_rays(board, r, c, bishop_dir_set)
        [] t = "Q" -> attack_rays(board, r, c, queen_dir_set)
        [] OTHER -> {}

\* The set built by the scan of the board: the attacks of every piece of
\* the color.
squares_attacked_by(board, color) ==
  UNION {piece_attacks(board, color, q[1], q[2]) :
           q \in {s \in Squares : board[s[1]][s[2]].color = color}}

\* A variant of is_in_check: a side without a king counts as in check.
is_in_check_absent_king_true(board, color) ==
  LET king_pos == find_king(board, color)
  IN  IF king_pos = NoPos THEN TRUE
      ELSE king_pos \in squares_attacked_by(board, enemy_of(color))

is_in_check(board, color) ==
  LET king_pos == find_king(board, color)
  IN  IF king_pos = NoPos THEN FALSE
      ELSE king_pos \in squares_attacked_by(board, enemy_of(color))

\* ---------------------------------------------------------- pseudo-legal moves
\* The while loop of a sliding piece in generate_pseudo_legal_moves: the empty
\* squares of the ray, then one enemy-occupied square, in the order appended.
RECURSIVE slide(_, _, _, _, _, _)
slide(board, color, rr, cc, dr, dc) ==
  IF ~in_bounds(rr, cc) THEN <<>>
  ELSE IF board[rr][cc] = None
       THEN <<<<rr, cc>>>> \o slide(board, color, rr + dr, cc + dc, dr, dc)
  ELSE IF board[rr][cc].color # color THEN <<<<rr, cc>>>>
  ELSE <<>>

RECURSIVE slides(_, _, _, _, _)
slides(board, color, r, c, dirs) ==
  IF dirs = <<>> THEN <<>>
  ELSE slide(board, color, r + Head(dirs)[1], c + Head(dirs)[2],
             Head(dirs)[1], Head(dirs)[2])
       \o slides(board, color, r, c, Tail(dirs))

\* Knight and king: each offset in bounds whose square is empty or enemy-held.
step_targets(board, color, r, c, offs) ==
  SelectSeq([i \in 1..Len(offs) |-> <<r + offs[i][1], c + offs[i][2]>>],
            LAMBDA q : in_bounds(q[1], q[2])
                       /\ (board[q[1]][q[2]] = None \/ board[q[1]][q[2]].color # color))

\* A variant of pawn_targets: the two start rows are swapped.
pawn_targets_swapped_start(board, color, r, c) ==
  LET dir_forward == IF color = "w" THEN -1 ELSE 1
      start_row == IF color = "w" THEN 1 ELSE 6
      r1 == r + dir_forward
      r2 == r + 2 * dir_forward
      forward ==
        IF in_bounds(r1, c) /\ board[r1][c] = None
        THEN <<<<r1, c>>>> \o
             (IF r = start_row /\ in_bounds(r2, c) /\ board[r2][c] = None
              THEN <<<<r2, c>>>> ELSE <<>>)
        ELSE <<>>
      captures ==
        SelectSeq(<<<<r1, c - 1>>, <<r1, c + 1>>>>,
                  LAMBDA q : in_bounds(q[1], q[2])
                             /\ board[q[1]][q[2]] # None
                             /\ board[q[1]][q[2]].color # color)
  IN  forward \o captures

pawn_targets(board, color, r, c) ==
  LET dir_forward == IF color = "w" THEN -1 ELSE 1
      start_row == IF color = "w" THEN 6 ELSE 1
      r1 == r + dir_forward
      r2 == r + 2 * dir_forward
      forward ==
        IF in_bounds(r1, c) /\ board[r1][c] = None
        THEN <<<<r1, c>>>> \o
             (IF r = start_row /\ in_bounds(r2, c) /\ board[r2][c] = None
              THEN <<<<r2, c>>>> ELSE <<>>)
        ELSE <<>>
      captures ==
        SelectSeq(<<<<r1, c - 1>>, <<r1, c + 1>>>>,
                  LAMBDA q : in_bounds(q[1], q[2])
                             /\ board[q[1]][q[2]] # None
                             /\ board[q[1]][q[2]].color # color)
  IN  forward \o captures

piece_targets(board, color, r, c) ==
  LET t == board[r][c].type
  IN  CASE t = "P" -> pawn_targets(board, color, r, c)
        [] t = "N" -> step_targets(board, color, r, c, knight_offsets)
        [] t = "B" -> slides(board, color, r, c, bishop_dirs)
        [] t = "R" -> slides(board, color, r, c, rook_dirs)
        [] t = "Q" -> slides(board, color, r, c, bishop_dirs \o rook_dirs)
        [] t = "K" -> step_targets(board, color, r, c, king_offsets)
        [] OTHER -> <<>>

\* add_move for every target of the piece on (r, c).
piece_moves(board, color, r, c) ==
  LET ts == piece_targets(board, color, r, c)
  IN  [i \in 1..Len(ts) |-> <<<<r, c>>, ts[i]>>]

\* The squares the two for loops do not skip: those holding a piece of the
\* color, as row-major indices in the order the loops reach them.
square_indices == [i \in 1..(ROWS * COLS) |-> i - 1]

own_squares(board, color) ==
  SelectSeq(square_indices,
            LAMBDA i : board[i \div COLS][i % COLS].color = color)

\* The moves appended for the pieces on the squares own, in that order.
RECURSIVE collect_moves(_, _, _)
collect_moves(board, color, own) ==
  IF own = <<>> THEN <<>>
  ELSE piece_moves(board, color, Head(own) \div COLS, Head(own) % COLS)
       \o collect_moves(board, color, Tail(own))

generate_pseudo_legal_moves(board, color) ==
  collect_moves(board, color, own_squares(board, color))

\* ------------------------------------------------------------- move executor
\* deep_copy_board yields a board equal to its argument square by square.
deep_copy_board(board) ==
  [r \in 0..(ROWS - 1) |-> [c \in 0..(COLS - 1) |->
     IF board[r][c] = None THEN None
     ELSE [type |-> board[r][c].type, color |-> board[r][c].color]]]

\* A variant of make_move: the source square is not cleared.
make_move_keep_source(board, move) ==
  LET r1 == move[1][1]
      c1 == move[1][2]
      r2 == move[2][1]
      c2 == move[2][2]
      new_board == deep_copy_board(board)
      piece == new_board[r1][c1]
  IN  IF piece # None /\ piece.type = "P"
         /\ r2 = (IF piece.color = "w" THEN 0 ELSE 7)
      THEN [new_board EXCEPT ![r2][c2] = put("Q", piece.color)]
      ELSE [new_board EXCEPT ![r2][c2] = piece]

\* A variant of make_move: the promotion rows of the two colors are swapped.
make_move_wrong_final_row(board, move) ==
  LET r1 == move[1][1]
      c1 == move[1][2]
      r2 == move[2][1]
      c2 == move[2][2]
      new_board == deep_copy_board(board)
      piece == new_board[r1][c1]
      cleared == [new_board EXCEPT ![r1][c1] = None]
  IN  IF piece # None /\ piece.type = "P"
         /\ r2 = (IF piece.color = "w" THEN 7 ELSE 0)
      THEN [cleared EXCEPT ![r2][c2] = put("Q", piece.color)]
      ELSE [cleared EXCEPT ![r2][c2] = piece]

make_move(board, move) ==
  LET r1 == move[1][1]
      c1 == move[1][2]
      r2 == move[2][1]
      c2 == move[2][2]
      new_board == deep_copy_board(board)
      piece == new_board[r1][c1]
      cleared == [new_board EXCEPT ![r1][c1] = None]
  IN  IF piece # None /\ piece.type = "P"
         /\ r2 = (IF piece.color = "w" THEN 0 ELSE 7)
      THEN [cleared EXCEPT ![r2][c2] = put("Q", piece.color)]
      ELSE [cleared EXCEPT ![r2][c2] = piece]

\* ---------------------------------------------------------- legal move filter
\* A variant of generate_legal_moves: the check test is left out.
generate_legal_moves_unfiltered(board, color) ==
  generate_pseudo_legal_moves(board, color)

\* The for loop over the pseudo-legal list: m is appended, in order, when
\* the mover is not in check on make_move(board, m).
generate_legal_moves(board, color) ==
  SelectSeq(generate_pseudo_legal_moves(board, color),
            LAMBDA m : ~is_in_check(make_move(board, m), color))

\* ------------------------------------------------------------------------ AI
\* random.choice(pool): any element of the list; IndexError on an empty list.
IndexError == <<<<-2, -2>>, <<-2, -2>>>>

random_choice(pool) == IF pool = <<>> THEN {IndexError} ELSE Range(pool)

\* A variant of ai_choose_move: captures are not preferred.
ai_choose_move_unbiased(board) ==
  LET color == "b"
      moves == generate_legal_moves(board, color)
  IN  IF moves = <<>> THEN {NoMove} ELSE random_choice(moves)

\* A variant of ai_choose_move: the empty move list is not tested for.
ai_choose_move_unguarded(board) ==
  LET color == "b"
      moves == generate_legal_moves(board, color)
      capture_moves == SelectSeq(moves, LAMBDA m : board[m[2][1]][m[2][2]] # None)
      pool == IF capture_moves # <<>> THEN capture_moves ELSE moves
  IN  random_choice(pool)

\* The set of values ai_choose_move(board) can return, over all outcomes of
\* the random choice; NoMove stands for the returned None.
ai_choose_move(board) ==
  LET color == "b"
      moves == generate_legal_moves(board, color)
      capture_moves == SelectSeq(moves, LAMBDA m : board[m[2][1]][m[2][2]] # None)
      pool == IF capture_moves # <<>> THEN capture_moves ELSE moves
  IN  IF moves = <<>> THEN {NoMove} ELSE random_choice(pool)

\* ------------------------------------------------------------------- state
VARIABLES
  board,              \* main(): the current position
  turn,               \* main(): "w" or "b"
  selected,           \* main(): the selected square, NoPos for None
  legal_moves_cache,  \* main(): White's legal moves as of the last selection
  info,               \* main(): the status line
  ai_pending,         \* main(): the AI move is due
  running,            \* main(): the loop flag
  pc,                 \* main(): "loop" inside the while loop, "exit" after it
  ply,                \* number of moves made so far (bounds the exploration)
  call,               \* the last engine call made on `board`, with its result
  heap,               \* the Python objects: row lists and piece dicts
  arg,                \* the board object passed to the engine (its row references)
  ret                 \* the board object the engine returned

vars == <<board, turn, selected, legal_moves_cache, info, ai_pending, running,
          pc, ply, call, heap, arg, ret>>

NoCall == [op |-> "none"]

\* A board object is its list of 8 references to row lists; reference 0 is
\* None, reference i > 0 the i-th object of its kind.
NoBoard == [r \in 0..(ROWS - 1) |-> 0]
NoHeap == [rows |-> <<>>, dicts |-> <<>>]
noheap == heap = NoHeap /\ arg = NoBoard /\ ret = NoBoard

\* ------------------------------------------------------------ the game loop
\* The game is cut after MaxPly moves.
MaxPly == 3

\* The files (columns) the modelled mouse clicks fall in.
ClickFiles == {4}

\* pos_from_mouse(event.pos): a square of the board, or None.
ClickInputs == {q \in Squares : q[2] \in ClickFiles} \cup {NoPos}

InitMain ==
  /\ board = initial_board
  /\ turn = "w"
  /\ selected = NoPos
  /\ legal_moves_cache = <<>>
  /\ info = "White to move. Click a piece, then a destination."
  /\ ai_pending = FALSE
  /\ running = TRUE
  /\ pc = "loop"
  /\ ply = 0
  /\ call = NoCall
  /\ noheap

\* A variant of HandleClick: an accepted move keeps the selection and the
\* cached move list.
HandleClick_keep_cache(pos, fresh) ==
  IF turn = "w" /\ ~ai_pending /\ pos # NoPos
  THEN LET p == board[pos[1]][pos[2]]
           own == p # None /\ p.color = "w"
           cand == <<selected, pos>>
           legal_moves == SelectSeq(legal_moves_cache, LAMBDA m : m[1] = selected)
       IN  IF selected = NoPos
           THEN /\ selected' = IF own THEN pos ELSE NoPos
                /\ legal_moves_cache' = IF own THEN fresh ELSE <<>>
                /\ UNCHANGED <<board, turn, info, ai_pending, ply>>
           ELSE IF cand \in Range(legal_moves)
           THEN /\ board' = make_move(board, cand)
                /\ turn' = "b"
                /\ info' = "Black thinking..."
                /\ ai_pending' = TRUE
                /\ ply' = ply + 1
                /\ UNCHANGED <<selected, legal_moves_cache>>
           ELSE /\ selected' = IF own THEN pos ELSE selected
                /\ legal_moves_cache' = IF own THEN fresh ELSE legal_moves_cache
                /\ UNCHANGED <<board, turn, info, ai_pending, ply>>
  ELSE UNCHANGED <<board, turn, selected, legal_moves_cache, info, ai_pending, ply>>

\* The handler of one MOUSEBUTTONDOWN event (button 1) at pos; fresh is
\* generate_legal_moves(board, "w") on the board as it is now (evaluated once
\* for all clicks on a state, and only where the handler can read it).
HandleClick(pos, fresh) ==
  IF turn = "w" /\ ~ai_pending /\ pos # NoPos
  THEN LET p == board[pos[1]][pos[2]]
           own == p # None /\ p.color = "w"
           cand == <<selected, pos>>
           legal_moves == SelectSeq(legal_moves_cache, LAMBDA m : m[1] = selected)
       IN  IF selected = NoPos
           THEN /\ selected' = IF own THEN pos ELSE NoPos
                /\ legal_moves_cache' = IF own THEN fresh ELSE <<>>
                /\ UNCHANGED <<board, turn, info, ai_pending, ply>>
           ELSE IF cand \in Range(legal_moves)
           THEN /\ board' = make_move(board, cand)
                /\ turn' = "b"
                /\ selected' = NoPos
                /\ legal_moves_cache' = <<>>
                /\ info' = "Black thinking..."
                /\ ai_pending' = TRUE
                /\ ply' = ply + 1
           ELSE /\ selected' = IF own THEN pos ELSE selected
                /\ legal_moves_cache' = IF own THEN fresh ELSE legal_moves_cache
                /\ UNCHANGED <<board, turn, info, ai_pending, ply>>
  ELSE UNCHANGED <<board, turn, selected, legal_moves_cache, info, ai_pending, ply>>

Click ==
  /\ pc = "loop" /\ ply < MaxPly
  /\ \E fresh \in {IF turn = "w" /\ ~ai_pending
                     THEN generate_legal_moves(board, "w") ELSE <<>>} :
       \E pos \in ClickInputs : HandleClick(pos, fresh)
  /\ UNCHANGED <<running, pc, call, heap, arg, ret>>

\* The handler of a pygame.QUIT event.
Quit ==
  /\ pc = "loop" /\ ply < MaxPly
  /\ running' = FALSE
  /\ UNCHANGED <<board, turn, selected, legal_moves_cache, info, ai_pending, pc,
                 ply, call, heap, arg, ret>>

\* The status line after the frame's check of White's king.
refresh(b, t, pending, text) ==
  IF t = "w" /\ ~pending /\ is_in_check(b, "w")
  THEN "Check on White! Your move." ELSE text

\* The rest of a frame after its events: the AI section (its delay has
\* elapsed or not), the status refresh, and the loop test.
FrameEnd ==
  /\ pc = "loop" /\ ply < MaxPly
  /\ \E elapsed \in BOOLEAN :
       IF turn = "b" /\ ai_pending /\ elapsed
       THEN \E m \in ai_choose_move(board) :
              IF m = NoMove
              THEN /\ info' = "Black has no legal moves."
                   /\ ai_pending' = FALSE
                   /\ UNCHANGED <<board, turn, ply>>
              ELSE /\ board' = make_move(board, m)
                   /\ turn' = "w"
                   /\ ai_pending' = FALSE
                   /\ info' = refresh(board', "w", FALSE,
                                      IF is_in_check(board', "w")
                                      THEN "Check on White! Your move."
                                      ELSE "White to move.")
                   /\ ply' = ply + 1
       ELSE /\ info' = refresh(board, turn, ai_pending, info)
            /\ UNCHANGED <<board, turn, ai_pending, ply>>
  /\ pc' = IF running THEN "loop" ELSE "exit"
  /\ UNCHANGED <<selected, legal_moves_cache, running, call, heap, arg, ret>>

Next == Click \/ Quit \/ FrameEnd

Spec == InitMain /\ [][Next]_vars

\* ------------------------------------------------ self-play from the start
\* Both sides alternately play any of their legal moves, White first; the
\* game is cut after PlayPly moves, and the moves played stay within the
\* files PlayFiles (the queen's side, where the first checks arise).
PlayPly == 4

PlayFiles == {0, 2, 3}

idle == <<selected, legal_moves_cache, info, ai_pending, running, pc, call,
          heap, arg, ret>>

InitPlay ==
  /\ board = initial_board
  /\ turn = "w"
  /\ ply = 0
  /\ selected = NoPos
  /\ legal_moves_cache = <<>>
  /\ info = ""
  /\ ai_pending = FALSE
  /\ running = TRUE
  /\ pc = "play"
  /\ call = NoCall
  /\ noheap

PlayMove ==
  /\ ply < PlayPly
  /\ \E m \in Range(generate_legal_moves(board, turn)) :
       /\ m[1][2] \in PlayFiles /\ m[2][2] \in PlayFiles
       /\ board' = make_move(board, m)
  /\ turn' = enemy_of(turn)
  /\ ply' = ply + 1
  /\ UNCHANGED idle

NextPlay == PlayMove

SpecPlay == InitPlay /\ [][NextPlay]_vars

\* ------------------------------------------- the engine on given positions
\* Boards given by the pieces on them: <<row, column, type, color>>.
board_of(pieces) ==
  [r \in 0..(ROWS - 1) |-> [c \in 0..(COLS - 1) |->
     IF \E p \in pieces : p[1] = r /\ p[2] = c
     THEN LET p == CHOOSE p \in pieces : p[1] = r /\ p[2] = c
          IN  put(p[3], p[4])
     ELSE None]]

\* A white rook pinned on the e-file by a black rook.
PinBoard ==
  board_of({<<7, 4, "K", "w">>, <<5, 4, "R", "w">>, <<0, 4, "R", "b">>,
            <<0, 0, "K", "b">>})

\* Pawns one step from promotion, with and without a capture.
PromoBoard ==
  board_of({<<1, 1, "P", "w">>, <<0, 2, "N", "b">>, <<6, 6, "P", "b">>,
            <<7, 7, "B", "w">>, <<7, 3, "K", "w">>, <<0, 5, "K", "b">>})

\* Black has one legal capture (rook takes pawn) and quiet moves besides.
CaptureBoard ==
  board_of({<<0, 7, "K", "b">>, <<2, 0, "R", "b">>, <<2, 3, "P", "w">>,
            <<7, 6, "K", "w">>})

\* Black is checkmated: the queen that gives check is defended, and the
\* knight cannot reach it.
MateBoard ==
  board_of({<<0, 0, "K", "b">>, <<1, 1, "Q", "w">>, <<2, 2, "K", "w">>,
            <<0, 7, "N", "b">>})

\* Black is stalemated.
StaleBoard ==
  board_of({<<0, 0, "K", "b">>, <<2, 1, "Q", "w">>, <<7, 7, "K", "w">>})

SeedBoards == {PinBoard, PromoBoard, CaptureBoard, MateBoard, StaleBoard}

\* The positions are the seed boards and those PosDepth moves away from them.
PosDepth == 1

Colors == {"w", "b"}

Occupied(b) == {q \in Squares : b[q[1]][q[2]] # None}

InitPos ==
  /\ board \in SeedBoards
  /\ ply = 0
  /\ call = NoCall
  /\ turn = "w"
  /\ selected = NoPos
  /\ legal_moves_cache = <<>>
  /\ info = ""
  /\ ai_pending = FALSE
  /\ running = TRUE
  /\ pc = "engine"
  /\ noheap

rest == <<turn, selected, legal_moves_cache, info, ai_pending, running, pc,
          heap, arg, ret>>

\* The engine is called on a position as it was reached: once one of the
\* calls below that keep the position has been made, the run ends.
AtPosition == call.op = "none" \/ (call.op = "make_move" /\ call.gen)

\* make_move(board, m) for a move m of either side's pseudo-legal list; the
\* returned board is the next position.
CallMakeMove ==
  /\ AtPosition
  /\ ply < PosDepth
  /\ \E color \in Colors :
       \E m \in Range(generate_pseudo_legal_moves(board, color)) :
         /\ board' = make_move(board, m)
         /\ call' = [op |-> "make_move", arg |-> board, move |-> m,
                     gen |-> TRUE, ret |-> board']
  /\ ply' = ply + 1
  /\ UNCHANGED rest

\* make_move(board, m) for any m whose source square holds a piece; the
\* returned board is recorded and dropped.
CallMakeMoveAny ==
  /\ AtPosition
  /\ ply < PosDepth
  /\ \E from \in Occupied(board) : \E to \in Squares :
       call' = [op |-> "make_move", arg |-> board, move |-> <<from, to>>,
                gen |-> FALSE, ret |-> make_move(board, <<from, to>>)]
  /\ UNCHANGED <<board, ply>>
  /\ UNCHANGED rest

CallIsInCheck ==
  /\ AtPosition
  /\ \E color \in Colors :
       call' = [op |-> "is_in_check", color |-> color,
                ret |-> is_in_check(board, color)]
  /\ UNCHANGED <<board, ply>>
  /\ UNCHANGED rest

CallLegalMoves ==
  /\ AtPosition
  /\ \E color \in Colors :
       call' = [op |-> "generate_legal_moves", color |-> color,
                ret |-> generate_legal_moves(board, color)]
  /\ UNCHANGED <<board, ply>>
  /\ UNCHANGED rest

CallAi ==
  /\ AtPosition
  /\ \E m \in ai_choose_move(board) :
       call' = [op |-> "ai_choose_move", ret |-> m]
  /\ UNCHANGED <<board, ply>>
  /\ UNCHANGED rest

NextPos ==
  CallMakeMove \/ CallMakeMoveAny \/ CallIsInCheck \/ CallLegalMoves \/ CallAi

SpecPos == InitPos /\ [][NextPos]_vars

\* ------------------------------------------------- the engine on the heap
\* deep_copy_board and make_move by reference: a board is a list of row
\* lists, a row a list of references to piece dicts. A call returns the heap
\* after it and the board object it returns.

\* The position a board object holds.
Contents(h, b) ==
  [r \in 0..(ROWS - 1) |-> [c \in 0..(COLS - 1) |->
     IF h.rows[b[r]][c] = 0 THEN None ELSE h.dicts[h.rows[b[r]][c]]]]

\* The objects of a board built square by square (as initial_board does).
new_board_object(position) ==
  LET occ == Occupied(position)
      nth(q) == Cardinality({o \in occ : o[1] * COLS + o[2] <= q[1] * COLS + q[2]})
      at(i) == CHOOSE q \in occ : nth(q) = i
  IN  [heap |-> [rows |-> [i \in 1..ROWS |-> [c \in 0..(COLS - 1) |->
                            IF position[i - 1][c] = None THEN 0
                            ELSE nth(<<i - 1, c>>)]],
                 dicts |-> [i \in 1..Cardinality(occ) |->
                              position[at(i)[1]][at(i)[2]]]],
       board |-> [r \in 0..(ROWS - 1) |-> r + 1]]

\* A variant of hp_deep_copy_board: a new outer list over the same row lists.
hp_shallow_copy_board(h, b) == [heap |-> h, board |-> b]

\* deep_copy_board: 8 new row lists, and a new dict for every piece.
hp_deep_copy_board(h, b) ==
  LET position == Contents(h, b)
      occ == Occupied(position)
      nth(q) == Cardinality({o \in occ : o[1] * COLS + o[2] <= q[1] * COLS + q[2]})
      at(i) == CHOOSE q \in occ : nth(q) = i
      nrows == Len(h.rows)
      ndicts == Len(h.dicts)
  IN  [heap |-> [rows |-> h.rows \o
                          [i \in 1..ROWS |-> [c \in 0..(COLS - 1) |->
                             IF position[i - 1][c] = None THEN 0
                             ELSE ndicts + nth(<<i - 1, c>>)]],
                 dicts |-> h.dicts \o
                           [i \in 1..Cardinality(occ) |->
                              [type |-> position[at(i)[1]][at(i)[2]].type,
                               color |-> position[at(i)[1]][at(i)[2]].color]]],
       board |-> [r \in 0..(ROWS - 1) |-> nrows + r + 1]]

\* new_board[r][c] = ref: the row list is changed in place.
set_item(h, b, r, c, ref) ==
  [h EXCEPT !.rows[b[r]][c] = ref]

hp_make_move(h, b, move) ==
  LET r1 == move[1][1]
      c1 == move[1][2]
      r2 == move[2][1]
      c2 == move[2][2]
      copy == hp_deep_copy_board(h, b)
      new_board == copy.board
      piece == copy.heap.rows[new_board[r1]][c1]
      h1 == set_item(copy.heap, new_board, r1, c1, 0)
  IN  IF piece # 0 /\ h1.dicts[piece].type = "P"
         /\ r2 = (IF h1.dicts[piece].color = "w" THEN 0 ELSE 7)
      THEN LET h2 == [h1 EXCEPT !.dicts = Append(@, put("Q", h1.dicts[piece].color))]
           IN  [heap |-> set_item(h2, new_board, r2, c2, Len(h2.dicts)),
                board |-> new_board]
      ELSE [heap |-> set_item(h1, new_board, r2, c2, piece), board |-> new_board]

\* The caller changes the returned board at most MaxEdits times.
MaxEdits == 1

InitHeap ==
  /\ board \in SeedBoards
  /\ heap = new_board_object(board).heap
  /\ arg = new_board_object(board).board
  /\ ret = NoBoard
  /\ call = NoCall
  /\ ply = 0
  /\ turn = "w"
  /\ selected = NoPos
  /\ legal_moves_cache = <<>>
  /\ info = ""
  /\ ai_pending = FALSE
  /\ running = TRUE
  /\ pc = "heap"

frame == <<board, arg, turn, selected, legal_moves_cache, info, ai_pending,
           running, pc>>

\* nb = make_move(b, m), m pseudo-legal for either side.
HeapMakeMove ==
  /\ call = NoCall
  /\ \E color \in Colors :
       \E m \in Range(generate_pseudo_legal_moves(Contents(heap, arg), color)) :
         \E res \in {hp_make_move(heap, arg, m)} :
           /\ heap' = res.heap
           /\ ret' = res.board
           /\ call' = [op |-> "make_move", move |-> m]
  /\ UNCHANGED ply
  /\ UNCHANGED frame

\* generate_legal_moves(b, color) is entered: the pseudo-legal list is built.
HeapLegalMoves ==
  /\ call = NoCall
  /\ \E color \in Colors :
       call' = [op |-> "generate_legal_moves", color |-> color, i |-> 1,
                pseudo |-> generate_pseudo_legal_moves(Contents(heap, arg), color)]
  /\ UNCHANGED <<heap, ret, ply>>
  /\ UNCHANGED frame

\* One pass of its for loop: nb = make_move(board, m); is_in_check(nb, color)
\* only reads nb.
HeapLegalStep ==
  /\ call.op = "generate_legal_moves" /\ call.i <= Len(call.pseudo)
  /\ \E res \in {hp_make_move(heap, arg, call.pseudo[call.i])} :
       /\ heap' = res.heap
       /\ ret' = res.board
  /\ call' = [call EXCEPT !.i = @ + 1]
  /\ UNCHANGED ply
  /\ UNCHANGED frame

\* A later change to the returned board: nb[r][c] = None.
HeapClearSquare ==
  /\ call.op = "make_move" /\ ply < MaxEdits
  /\ \E q \in Occupied(Contents(heap, ret)) \cup {call.move[1]} :
       heap' = set_item(heap, ret, q[1], q[2], 0)
  /\ ply' = ply + 1
  /\ UNCHANGED <<ret, call>>
  /\ UNCHANGED frame

\* A later change to a piece of the returned board: nb[r][c]["type"] = t.
HeapRetype ==
  /\ call.op = "make_move" /\ ply < MaxEdits
  /\ \E q \in Occupied(Contents(heap, ret)) : \E t \in {"Q", "N"} :
       heap' = [heap EXCEPT !.dicts[heap.rows[ret[q[1]]][q[2]]].type = t]
  /\ ply' = ply + 1
  /\ UNCHANGED <<ret, call>>
  /\ UNCHANGED frame

NextHeap ==
  HeapMakeMove \/ HeapLegalMoves \/ HeapLegalStep \/ HeapClearSquare \/ HeapRetype

SpecHeap == InitHeap /\ [][NextHeap]_vars

\* The heap-level make_move returns the position the value-level one gives.
HeapAgrees ==
  (call.op = "make_move" /\ ply = 0) =>
    Contents(heap, ret) = make_move(board, call.move)

\* ------------------------------------------------------------------ claims
PieceCount(b) == Cardinality(Occupied(b))

NoKing(b, color) == \A q \in Squares : b[q[1]][q[2]] # put("K", color)

KingCount(b, color) ==
  Cardinality({q \in Squares : b[q[1]][q[2]] = put("K", color)})

\* C1: the list generate_legal_moves(b, c) returns holds exactly the
\* pseudo-legal moves after which c is not in check: every member is
\* pseudo-legal and leaves c's king (if any) off the squares the enemy
\* attacks, and every pseudo-legal move left out puts c in check.
C1_LegalIsFilteredPseudo ==
  call.op = "generate_legal_moves" =>
    LET c == call.color
        pseudo == Range(generate_pseudo_legal_moves(board, c))
        legal == Range(call.ret)
    IN  /\ legal \subseteq pseudo
        /\ \A m \in legal :
             LET nb == make_move(board, m)
             IN  \/ NoKing(nb, c)
                 \/ find_king(nb, c) \notin squares_attacked_by(nb, enemy_of(c))
        /\ \A m \in pseudo \ legal : is_in_check(make_move(board, m), c)

\* The pinned rook of PinBoard: its sideways move is pseudo-legal and left
\* out, its move along the file is kept.
C1_Witness ==
  /\ board = PinBoard
  /\ call.op = "generate_legal_moves" /\ call.color = "w"
  /\ <<<<5, 4>>, <<5, 0>>>> \in Range(generate_pseudo_legal_moves(board, "w"))
  /\ <<<<5, 4>>, <<5, 0>>>> \notin Range(call.ret)
  /\ <<<<5, 4>>, <<4, 4>>>> \in Range(call.ret)

\* C2: on initial_board, generate_legal_moves for White is a list of 20
\* distinct moves: the 8 single steps and the 8 double steps of the pawns and
\* the 4 knight moves; the list a first selection caches is that list.
C2_InitialWhiteMoves ==
  board = initial_board =>
    LET lm == generate_legal_moves(board, "w")
        single == {<<<<6, c>>, <<5, c>>>> : c \in 0..7}
        double == {<<<<6, c>>, <<4, c>>>> : c \in 0..7}
        knight == {<<<<7, 1>>, <<5, 0>>>>, <<<<7, 1>>, <<5, 2>>>>,
                   <<<<7, 6>>, <<5, 5>>>>, <<<<7, 6>>, <<5, 7>>>>}
    IN  /\ Len(lm) = 20
        /\ Cardinality(Range(lm)) = 20
        /\ Range(lm) = single \cup double \cup knight
        /\ (selected # NoPos => legal_moves_cache = lm)

\* White has selected a piece on the initial board: the list is computed.
C2_Witness ==
  /\ board = initial_board
  /\ selected # NoPos
  /\ Len(legal_moves_cache) = 20

\* C3: for a move of generate_pseudo_legal_moves, make_move returns a board
\* with as many pieces as before when the destination was empty, and one
\* fewer when it was occupied.
C3_PieceCount ==
  (call.op = "make_move" /\ call.gen) =>
    LET to == call.move[2]
    IN  PieceCount(call.ret) =
          IF call.arg[to[1]][to[2]] # None
          THEN PieceCount(call.arg) - 1 ELSE PieceCount(call.arg)

\* The pawn of PromoBoard takes the knight and promotes: one piece fewer.
C3_Witness ==
  /\ call.op = "make_move" /\ call.gen
  /\ call.arg = PromoBoard
  /\ call.move = <<<<1, 1>>, <<0, 2>>>>
  /\ call.ret[0][2] = put("Q", "w")
  /\ PieceCount(call.ret) = PieceCount(call.arg) - 1

Promotes(piece, row) ==
  piece.type = "P" /\ row = (IF piece.color = "w" THEN 0 ELSE 7)

DestinationHolds(b, m, nb) ==
  LET piece == b[m[1][1]][m[1][2]]
  IN  nb[m[2][1]][m[2][2]] =
        IF Promotes(piece, m[2][1]) THEN put("Q", piece.color) ELSE piece

OthersKept(b, m, nb) ==
  \A q \in Squares \ {m[1], m[2]} : nb[q[1]][q[2]] = b[q[1]][q[2]]

\* C4 as claimed: for every move whose source holds a piece, the source is
\* empty afterwards, the destination holds the moving piece (a queen of its
\* color for a pawn reaching the last row), all other squares are kept.
C4_Original ==
  call.op = "make_move" =>
    /\ call.ret[call.move[1][1]][call.move[1][2]] = None
    /\ DestinationHolds(call.arg, call.move, call.ret)
    /\ OthersKept(call.arg, call.move, call.ret)

\* C4, amended: the source is empty afterwards when the destination is
\* another square; the destination holds the moving piece (a queen of its
\* color for a pawn reaching the last row) also when it is the source square;
\* all other squares are kept.
C4_MakeMove ==
  call.op = "make_move" =>
    /\ (call.move[1] # call.move[2] =>
          call.ret[call.move[1][1]][call.move[1][2]] = None)
    /\ DestinationHolds(call.arg, call.move, call.ret)
    /\ OthersKept(call.arg, call.move, call.ret)

\* The pawn of PromoBoard steps to row 0: a white queen stands there.
C4_Witness ==
  /\ call.op = "make_move"
  /\ call.arg = PromoBoard
  /\ call.move = <<<<1, 1>>, <<0, 1>>>>
  /\ call.ret[0][1] = put("Q", "w")
  /\ call.ret[1][1] = None

\* C5: the board object passed to make_move or generate_legal_moves holds
\* on every square what it held before the call, after the call and after
\* any later change to the returned board.
C5_InputUnchanged == Contents(heap, arg) = board

\* The returned board was changed after the call, the input was not.
C5_Witness ==
  /\ call.op = "make_move" /\ ply > 0
  /\ Contents(heap, ret) # make_move(board, call.move)
  /\ Contents(heap, arg) = board

\* C6: when Black has a legal move onto an occupied square, ai_choose_move
\* returns such a move; when Black has legal moves but none onto an occupied
\* square, it returns a legal move.
C6_AiPrefersCaptures ==
  call.op = "ai_choose_move" =>
    LET legal == Range(generate_legal_moves(board, "b"))
        captures == {m \in legal : board[m[2][1]][m[2][2]] # None}
    IN  /\ captures # {} => call.ret \in captures
        /\ (legal # {} /\ captures = {}) => call.ret \in legal

\* CaptureBoard: one legal capture among quiet moves, and it is returned.
C6_Witness ==
  /\ board = CaptureBoard
  /\ call.op = "ai_choose_move"
  /\ call.ret = <<<<2, 0>>, <<2, 3>>>>
  /\ LET legal == Range(generate_legal_moves(board, "b"))
     IN  /\ {m \in legal : board[m[2][1]][m[2][2]] # None} = {call.ret}
         /\ \E m \in legal : board[m[2][1]][m[2][2]] = None

\* C7: ai_choose_move returns None exactly when Black has no legal move,
\* and never raises.
C7_AiNoneIffNoMoves ==
  call.op = "ai_choose_move" =>
    /\ call.ret = NoMove <=> generate_legal_moves(board, "b") = <<>>
    /\ call.ret # IndexError

\* MateBoard: Black is in check without a legal move, and None is returned.
C7_Witness ==
  /\ board = MateBoard
  /\ call.op = "ai_choose_move"
  /\ call.ret = NoMove
  /\ is_in_check(board, "b")

\* C8: on a board without a king of color c, is_in_check(b, c) is false
\* and generate_legal_moves(b, c) is the pseudo-legal list.
C8_AbsentKing ==
  /\ (call.op = "is_in_check" /\ NoKing(board, call.color)) => call.ret = FALSE
  /\ (call.op = "generate_legal_moves" /\ NoKing(board, call.color)) =>
       call.ret = generate_pseudo_legal_moves(board, call.color)

\* A side without a king has moves, all of them legal, with enemy pieces on
\* the board.
C8_Witness ==
  /\ call.op = "generate_legal_moves"
  /\ NoKing(board, call.color)
  /\ call.ret # <<>>
  /\ \E q \in Occupied(board) : board[q[1]][q[2]].color = enemy_of(call.color)

\* C9: in the game loop the board changes only by a legal move of the side
\* to move, taken on the board as it is (White's from a cache equal to the
\* current legal list); the turn flips exactly when the board changes; a
\* click during Black's turn or a pending AI move changes neither board,
\* turn nor selection.
C9_GameLoop ==
  [][/\ board' # board =>
          \E now \in {generate_legal_moves(board, turn)} :
            /\ \E m \in Range(now) : board' = make_move(board, m)
            /\ turn' = enemy_of(turn)
            /\ turn = "w" => legal_moves_cache = now
     /\ turn' # turn => board' # board
     /\ ((turn = "b" \/ ai_pending) /\ Click) =>
          UNCHANGED <<board, turn, selected>>
    ]_vars

\* White, Black and White again have moved.
C9_Witness == ply = 3 /\ turn = "b" /\ ai_pending /\ selected = NoPos

\* C10: in self-play from initial_board each color has exactly one king,
\* and no legal move of the side to move lands on the other king's square.
C10_KingsStay ==
  /\ KingCount(board, "w") = 1
  /\ KingCount(board, "b") = 1
  /\ \A m \in Range(generate_legal_moves(board, turn)) :
       m[2] # find_king(board, enemy_of(turn))

\* The side to move is in check, and both kings are on the board.
C10_Witness ==
  /\ ply > 0
  /\ is_in_check(board, turn)
  /\ KingCount(board, "w") = 1 /\ KingCount(board, "b") = 1
====
